---- MODULE Spec2Model ----
\* Model of ftkit's OnceCell<T> (src/args.rs): a lazily initialised cell made
\* of an atomic three-valued state and a raw slot, accessed by several threads
\* through get_or_init.  Every thread runs get_or_init statement by statement;
\* the atomic state is shared, the slot is plain memory.
\*
\* Memory ordering: the exchange is Acquire on success and on failure and the
\* guard's store is Release, so every access to the slot is ordered after the
\* store that the accessing thread's exchange read from.  The slot is therefore
\* modelled as sequentially consistent memory.
\*
\* The fourth arm of the match, Err(_) => unreachable_unchecked(), needs a
\* state outside {UNINIT, IN_PROGRESS, INIT}; the state is only ever given
\* these three values, so the arm has no action.
EXTENDS Integers, Naturals, Sequences, FiniteSets, TLC

\* ---------------------------------------------------------------- bounds
NThreads == 2
MaxCalls == 2
NFields == 2
\* largest index passed to the positional accessors of Args
MaxIndex == 3
\* number of bits of the model's i32 and u32; u64 has twice as many
WordBits == 5

Threads == 1..NThreads
Fields == 1..NFields
\* the values a producer may return (7 and 42 are the spec's scenarios)
Values == {7, 42}

\* ------------------------------------------------------- program constants
UNINIT == 0
IN_PROGRESS == 1
INIT == 2
\* content of a field of the slot that was never written (MaybeUninit::uninit)
UninitBytes == 0

\* ------------------------------------------------------------------ state
VARIABLES
    state,      \* OnceCell.state : AtomicU8
    slot,       \* OnceCell.value : one entry per field of T
    pc,         \* position of each thread in get_or_init
    guard,      \* Guard.new_state of the guard each thread holds
    tmp,        \* result of f() held by the thread before it is assigned
    widx,       \* number of fields of the slot the thread has written
    ncalls,     \* calls of get_or_init each thread has started
    yielded,    \* the thread's current call went through yield_now
    late,       \* the thread's current call began after some call returned
    via,        \* match arm the thread's current call left the loop by
    outcome,    \* how the thread's last finished call ended
    ret,        \* what the thread read through the returned reference
    fault,      \* the process was killed by the drop of uninitialised memory
    \* history of the execution
    calls,      \* producer invocations started
    aborted,    \* producer invocations that panicked
    panics,     \* panics that reached the caller of get_or_init
    produced,   \* values returned by producer invocations, in order
    stateHist,  \* the values the state has held, in order
    observed,   \* every slot content read through a returned reference
    slotReads,  \* <<kind, state>> of every read of the slot's contents
    slotDrops,  \* state at every drop of the slot's contents
    slotWrites, \* <<thread, state, initializers>> of every write to the slot
    \* a producer that calls get_or_init on the cell it initialises
    inner,      \* position of each thread in the get_or_init its producer called
    \* Args: the cell caches the process's argument list
    argv,       \* the arguments the process was started with
    envReads,   \* calls of std::env::args()
    access,     \* the accessor of Args that answered last, and its answer
    \* random_number
    rpc,        \* "off", "call" (about to be called) or "done"
    rstart,     \* range.start_bound()
    rend,       \* range.end_bound()
    randState,  \* RAND_STATE of the calling thread
    rresult,    \* how the call ended
    \* read_line
    ipc,        \* position in read_line, "off" when it is not called
    iline,      \* the bytes stdin's read_line appended
    iresult,    \* result : String, as its UTF-8 bytes
    iend        \* end

\* the variables get_or_init's own statements never touch
ext == <<inner, argv, envReads, access, rpc, rstart, rend, randState, rresult,
                   ipc, iline, iresult, iend>>

vars == <<state, slot, pc, guard, tmp, widx, ncalls, yielded, late, via,
          outcome, ret, fault, calls, aborted, panics, produced, stateHist,
          observed, slotReads, slotDrops, slotWrites, ext>>

hist == <<calls, aborted, panics, produced, stateHist, observed, slotReads,
          slotDrops, slotWrites>>

\* the slot when every field holds v
Full(v) == [i \in Fields |-> v]

\* threads between a successful claim and the drop of their guard
InitPcs == {"call_f", "in_f", "drop_old", "write", "arm", "guard_drop", "unwind"}
Initializers == {t \in Threads : pc[t] \in InitPcs}

\* OnceCell::new
CellInit ==
    /\ state = UNINIT
    /\ slot = Full(UninitBytes)
    /\ pc = [t \in Threads |-> "idle"]
    /\ guard = [t \in Threads |-> UNINIT]
    /\ tmp = [t \in Threads |-> UninitBytes]
    /\ widx = [t \in Threads |-> 0]
    /\ ncalls = [t \in Threads |-> 0]
    /\ yielded = [t \in Threads |-> FALSE]
    /\ late = [t \in Threads |-> FALSE]
    /\ via = [t \in Threads |-> "none"]
    /\ outcome = [t \in Threads |-> "none"]
    /\ ret = [t \in Threads |-> Full(UninitBytes)]
    /\ fault = FALSE
    /\ calls = 0
    /\ aborted = 0
    /\ panics = 0
    /\ produced = <<>>
    /\ stateHist = <<UNINIT>>
    /\ observed = {}
    /\ slotReads = {}
    /\ slotDrops = {}
    /\ slotWrites = {}

\* no producer has called get_or_init
NoInner == inner = [t \in Threads |-> "none"]

\* no accessor of Args has answered
NoAccess == [kind |-> "none"]

\* the cell is not the cache of Args
NoArgs ==
    /\ argv = <<>>
    /\ envReads = 0
    /\ access = NoAccess

\* random_number is not called
NoRand ==
    /\ rpc = "off"
    /\ rstart = [kind |-> "Unbounded"]
    /\ rend = [kind |-> "Unbounded"]
    /\ randState = 0
    /\ rresult = [kind |-> "none"]

NoInput ==
    /\ ipc = "off"
    /\ iline = <<>>
    /\ iresult = <<>>
    /\ iend = 0

Init ==
    /\ CellInit
    /\ NoInner
    /\ NoArgs
    /\ NoRand
    /\ NoInput

\* ------------------------------------------------------------- operations

\* AtomicU8::compare_exchange_weak(expected, new): the value found, whether
\* the exchange took place and the value left in the atomic.  A weak exchange
\* may fail although the value found is the expected one.
CompareExchangeWeakAny(cur, expected, new, spurious) ==
    IF cur # INIT /\ ~spurious
    THEN [ok |-> TRUE, found |-> cur, after |-> new]
    ELSE [ok |-> FALSE, found |-> cur, after |-> cur]

CompareExchangeSwap(cur, expected, new, spurious) ==
    [ok |-> (cur = expected /\ ~spurious), found |-> cur, after |-> new]

CompareExchangeWeak(cur, expected, new, spurious) ==
    IF cur = expected /\ ~spurious
    THEN [ok |-> TRUE, found |-> cur, after |-> new]
    ELSE [ok |-> FALSE, found |-> cur, after |-> cur]

\* the arm of the `match` that the result r of the exchange selects
ArmNoFastPath(r) ==
    IF r.ok THEN "Ok" ELSE "Err(IN_PROGRESS | UNINIT)"

Arm(r) ==
    IF r.ok THEN "Ok"
    ELSE IF r.found = INIT THEN "Err(INIT)"
    ELSE IF r.found \in {IN_PROGRESS, UNINIT} THEN "Err(IN_PROGRESS | UNINIT)"
    ELSE "Err(_)"

\* Guard { new_state: UNINIT }: the state a new guard restores
GuardNewPoison == IN_PROGRESS

GuardNewArmed == INIT

GuardNew == UNINIT

\* a thread enters get_or_init and reaches the head of the loop
Call(t) ==
    /\ ~fault
    /\ UNCHANGED ext
    /\ pc[t] \in {"idle", "returned", "panicked"}
    /\ ncalls[t] < MaxCalls
    /\ pc' = [pc EXCEPT ![t] = "cas"]
    /\ ncalls' = [ncalls EXCEPT ![t] = @ + 1]
    /\ yielded' = [yielded EXCEPT ![t] = FALSE]
    /\ late' = [late EXCEPT ![t] = (observed # {})]
    /\ via' = [via EXCEPT ![t] = "none"]
    /\ UNCHANGED <<state, slot, guard, tmp, widx, outcome, ret, fault, hist>>

\* Ok(_): the claim succeeded; the thread takes `slot` and builds the guard
CasOk(t) ==
    /\ ~fault
    /\ UNCHANGED ext
    /\ pc[t] = "cas"
    /\ \E spurious \in BOOLEAN :
         LET r == CompareExchangeWeak(state, UNINIT, IN_PROGRESS, spurious) IN
           /\ Arm(r) = "Ok"
           /\ state' = r.after
           /\ stateHist' = Append(stateHist, r.after)
    /\ guard' = [guard EXCEPT ![t] = GuardNew]
    /\ via' = [via EXCEPT ![t] = "win"]
    /\ pc' = [pc EXCEPT ![t] = "call_f"]
    /\ UNCHANGED <<slot, tmp, widx, ncalls, yielded, late, outcome, ret, fault,
                   calls, aborted, panics, produced, observed, slotReads,
                   slotDrops, slotWrites>>

\* Err(INIT): leave the loop with a reference to the slot
CasErrInit(t) ==
    /\ ~fault
    /\ UNCHANGED ext
    /\ pc[t] = "cas"
    /\ \E spurious \in BOOLEAN :
         LET r == CompareExchangeWeak(state, UNINIT, IN_PROGRESS, spurious) IN
           /\ Arm(r) = "Err(INIT)"
           /\ state' = r.after
    /\ via' = [via EXCEPT ![t] = "ready"]
    /\ pc' = [pc EXCEPT ![t] = "read_ready"]
    /\ UNCHANGED <<slot, guard, tmp, widx, ncalls, yielded, late, outcome, ret,
                   fault, hist>>

\* Err(IN_PROGRESS | UNINIT): another thread initialises, or the weak exchange
\* failed spuriously
CasErrRetry(t) ==
    /\ ~fault
    /\ UNCHANGED ext
    /\ pc[t] = "cas"
    /\ \E spurious \in BOOLEAN :
         LET r == CompareExchangeWeak(state, UNINIT, IN_PROGRESS, spurious) IN
           /\ Arm(r) = "Err(IN_PROGRESS | UNINIT)"
           /\ state' = r.after
    /\ pc' = [pc EXCEPT ![t] = "yield"]
    /\ UNCHANGED <<slot, guard, tmp, widx, ncalls, yielded, late, via, outcome,
                   ret, fault, hist>>

\* std::thread::yield_now(), then the next turn of the loop
Yield(t) ==
    /\ ~fault
    /\ UNCHANGED ext
    /\ pc[t] = "yield"
    /\ yielded' = [yielded EXCEPT ![t] = TRUE]
    /\ pc' = [pc EXCEPT ![t] = "cas"]
    /\ UNCHANGED <<state, slot, guard, tmp, widx, ncalls, late, via, outcome,
                   ret, fault, hist>>

\* f() is entered
ProducerStart(t) ==
    /\ ~fault
    /\ UNCHANGED ext
    /\ pc[t] = "call_f"
    /\ calls' = calls + 1
    /\ pc' = [pc EXCEPT ![t] = "in_f"]
    /\ UNCHANGED <<state, slot, guard, tmp, widx, ncalls, yielded, late, via,
                   outcome, ret, fault, aborted, panics, produced, stateHist,
                   observed, slotReads, slotDrops, slotWrites>>

\* f() returns v
ProducerReturn(t) ==
    /\ ~fault
    /\ UNCHANGED ext
    /\ pc[t] = "in_f"
    /\ inner[t] = "none"
    /\ \E v \in Values :
         /\ tmp' = [tmp EXCEPT ![t] = v]
         /\ produced' = Append(produced, v)
    /\ pc' = [pc EXCEPT ![t] = "drop_old"]
    /\ UNCHANGED <<state, slot, guard, widx, ncalls, yielded, late, via,
                   outcome, ret, fault, calls, aborted, panics, stateHist,
                   observed, slotReads, slotDrops, slotWrites>>

\* f() panics: unwinding starts, the guard is still to be dropped
ProducerPanic(t) ==
    /\ ~fault
    /\ UNCHANGED ext
    /\ pc[t] = "in_f"
    /\ inner[t] = "none"
    /\ aborted' = aborted + 1
    /\ pc' = [pc EXCEPT ![t] = "unwind"]
    /\ UNCHANGED <<state, slot, guard, tmp, widx, ncalls, yielded, late, via,
                   outcome, ret, fault, calls, panics, produced, stateHist,
                   observed, slotReads, slotDrops, slotWrites>>

\* `*slot = ...`, first half: the assignment drops the value the slot held.
\* The slot was never written, so the drop runs on uninitialised memory:
\* either it finds nothing to free and returns, or it kills the process.
DropOld(t) ==
    /\ ~fault
    /\ UNCHANGED ext
    /\ pc[t] = "drop_old"
    /\ slotReads' = slotReads \cup {<<"drop", state>>}
    /\ slotDrops' = slotDrops \cup {state}
    /\ \E crash \in BOOLEAN :
         /\ crash => \E i \in Fields : slot[i] = UninitBytes
         /\ fault' = crash
         /\ pc' = [pc EXCEPT ![t] = IF crash THEN "drop_old" ELSE "write"]
    /\ widx' = [widx EXCEPT ![t] = 0]
    /\ UNCHANGED <<state, slot, guard, tmp, ncalls, yielded, late, via,
                   outcome, ret, calls, aborted, panics, produced, stateHist,
                   observed, slotWrites>>

\* the assignment is complete once every field has been written
WriteDoneEarly(n) == n >= 1

WriteDone(n) == n = NFields

\* `*slot = ...`, second half: the result of f() is moved into the slot, one
\* field at a time
WriteField(t) ==
    /\ ~fault
    /\ UNCHANGED ext
    /\ pc[t] = "write"
    /\ widx[t] < NFields
    /\ slot' = [slot EXCEPT ![widx[t] + 1] = tmp[t]]
    /\ slotWrites' = slotWrites \cup {<<t, state, Initializers>>}
    /\ widx' = [widx EXCEPT ![t] = @ + 1]
    /\ pc' = [pc EXCEPT ![t] = IF WriteDone(widx[t] + 1) THEN "arm" ELSE "write"]
    /\ UNCHANGED <<state, guard, tmp, ncalls, yielded, late, via, outcome, ret,
                   fault, calls, aborted, panics, produced, stateHist,
                   observed, slotReads, slotDrops>>

\* guard.new_state = INIT
GuardArm(t) ==
    /\ ~fault
    /\ UNCHANGED ext
    /\ pc[t] = "arm"
    /\ guard' = [guard EXCEPT ![t] = INIT]
    /\ pc' = [pc EXCEPT ![t] = "guard_drop"]
    /\ UNCHANGED <<state, slot, tmp, widx, ncalls, yielded, late, via, outcome,
                   ret, fault, hist>>

\* Guard::drop: the value the state is given when thread t's guard is dropped
GuardStoreUninit(t) == UNINIT

GuardStore(t) == guard[t]

\* `break slot`: the guard goes out of scope and the reference is returned
GuardDrop(t) ==
    /\ ~fault
    /\ UNCHANGED ext
    /\ pc[t] = "guard_drop"
    /\ state' = GuardStore(t)
    /\ stateHist' = Append(stateHist, GuardStore(t))
    /\ pc' = [pc EXCEPT ![t] = "read_ready"]
    /\ UNCHANGED <<slot, guard, tmp, widx, ncalls, yielded, late, via, outcome,
                   ret, fault, calls, aborted, panics, produced, observed,
                   slotReads, slotDrops, slotWrites>>

\* unwinding out of f(): the guard is dropped on the way
GuardDropUnwind(t) ==
    /\ ~fault
    /\ UNCHANGED ext
    /\ pc[t] = "unwind"
    /\ state' = GuardStore(t)
    /\ stateHist' = Append(stateHist, GuardStore(t))
    /\ pc' = [pc EXCEPT ![t] = "propagate"]
    /\ UNCHANGED <<slot, guard, tmp, widx, ncalls, yielded, late, via, outcome,
                   ret, fault, calls, aborted, panics, produced, observed,
                   slotReads, slotDrops, slotWrites>>

\* the panic leaves get_or_init and reaches its caller
Propagate(t) ==
    /\ ~fault
    /\ UNCHANGED ext
    /\ pc[t] = "propagate"
    /\ panics' = panics + 1
    /\ outcome' = [outcome EXCEPT ![t] = "panic"]
    /\ pc' = [pc EXCEPT ![t] = "panicked"]
    /\ UNCHANGED <<state, slot, guard, tmp, widx, ncalls, yielded, late, via,
                   ret, fault, calls, aborted, produced, stateHist, observed,
                   slotReads, slotDrops, slotWrites>>

\* get_or_init has returned &T; the caller reads the value through it
ReadReady(t) ==
    /\ ~fault
    /\ UNCHANGED ext
    /\ pc[t] = "read_ready"
    /\ ret' = [ret EXCEPT ![t] = slot]
    /\ observed' = observed \cup {slot}
    /\ slotReads' = slotReads \cup {<<"deref", state>>}
    /\ outcome' = [outcome EXCEPT ![t] = "value"]
    /\ pc' = [pc EXCEPT ![t] = "returned"]
    /\ UNCHANGED <<state, slot, guard, tmp, widx, ncalls, yielded, late, via,
                   fault, calls, aborted, panics, produced, stateHist,
                   slotDrops, slotWrites>>

Next ==
    \E t \in Threads :
        \/ Call(t)
        \/ CasOk(t)
        \/ CasErrInit(t)
        \/ CasErrRetry(t)
        \/ Yield(t)
        \/ ProducerStart(t)
        \/ ProducerReturn(t)
        \/ ProducerPanic(t)
        \/ DropOld(t)
        \/ WriteField(t)
        \/ GuardArm(t)
        \/ GuardDrop(t)
        \/ GuardDropUnwind(t)
        \/ Propagate(t)
        \/ ReadReady(t)

Spec == Init /\ [][Next]_vars

\* ---------------------------------------------------------- fair scheduling

\* the steps thread t takes once it is inside get_or_init
ThreadStep(t) ==
    \/ CasOk(t)
    \/ CasErrInit(t)
    \/ CasErrRetry(t)
    \/ Yield(t)
    \/ ProducerStart(t)
    \/ ProducerReturn(t)
    \/ ProducerPanic(t)
    \/ DropOld(t)
    \/ WriteField(t)
    \/ GuardArm(t)
    \/ GuardDrop(t)
    \/ GuardDropUnwind(t)
    \/ Propagate(t)
    \/ ReadReady(t)

\* Every thread inside get_or_init keeps being scheduled, every producer
\* invocation ends, and a weak exchange attempted again and again on an UNINIT
\* state does not fail spuriously for ever.
FairSpec ==
    /\ Init
    /\ [][Next]_vars
    /\ \A t \in Threads : WF_vars(ThreadStep(t))
    /\ \A t \in Threads : SF_vars(CasOk(t))

\* ------------------------------------------------- re-entrant initialisation

\* f() calls get_or_init on the cell that is running it
ProducerReenter(t) ==
    /\ ~fault
    /\ pc[t] = "in_f"
    /\ inner[t] = "none"
    /\ inner' = [inner EXCEPT ![t] = "cas"]
    /\ UNCHANGED <<state, slot, pc, guard, tmp, widx, ncalls, yielded, late,
                   via, outcome, ret, fault, hist, argv, envReads, access,
                   rpc, rstart, rend, randState, rresult,
                   ipc, iline, iresult, iend>>

\* the exchange at the head of the inner call's loop, and the arm it selects
InnerCas(t) ==
    /\ ~fault
    /\ inner[t] = "cas"
    /\ \E spurious \in BOOLEAN :
         LET r == CompareExchangeWeak(state, UNINIT, IN_PROGRESS, spurious) IN
           /\ state' = r.after
           /\ stateHist' = IF r.ok THEN Append(stateHist, r.after) ELSE stateHist
           /\ inner' = [inner EXCEPT ![t] =
                          IF Arm(r) = "Ok" THEN "claimed"
                          ELSE IF Arm(r) = "Err(INIT)" THEN "ready"
                          ELSE "yield"]
    /\ UNCHANGED <<slot, pc, guard, tmp, widx, ncalls, yielded, late, via,
                   outcome, ret, fault, calls, aborted, panics, produced,
                   observed, slotReads, slotDrops, slotWrites, argv, envReads,
                   access, rpc, rstart, rend, randState, rresult,
                   ipc, iline, iresult, iend>>

\* yield_now() in the inner call, then the next turn of its loop
InnerYield(t) ==
    /\ ~fault
    /\ inner[t] = "yield"
    /\ inner' = [inner EXCEPT ![t] = "cas"]
    /\ UNCHANGED <<state, slot, pc, guard, tmp, widx, ncalls, yielded, late,
                   via, outcome, ret, fault, hist, argv, envReads, access,
                   rpc, rstart, rend, randState, rresult,
                   ipc, iline, iresult, iend>>

ReNext ==
    \/ Next
    \/ \E t \in Threads :
         \/ ProducerReenter(t)
         \/ InnerCas(t)
         \/ InnerYield(t)

ReSpec == Init /\ [][ReNext]_vars

\* -------------------------------------------------------------------- Args

\* an argument of the process that is not valid Unicode
NonUnicode == "<non-unicode>"

\* the argument lists the process may have been started with, in a fixed order
ArgvOrder ==
    << <<>>, <<"prog">>, <<"prog", "-v", "-v">>, <<"prog", NonUnicode>> >>
ArgvChoices == {ArgvOrder[k] : k \in DOMAIN ArgvOrder}

\* the content of a slot field that designates the boxed list l
Code(l) == CHOOSE k \in DOMAIN ArgvOrder : ArgvOrder[k] = l

\* std::env::args() yields an argument as a String, or panics
IsUnicode(a) == a # NonUnicode

\* the list designated by a slot content c read through &T
Boxed(c) ==
    IF \E k \in DOMAIN ArgvOrder : c = Full(k)
    THEN ArgvOrder[CHOOSE k \in DOMAIN ArgvOrder : c = Full(k)]
    ELSE <<"<garbage>">>

\* <[T]>::len
LenOp(l) == Len(l)

\* <[T]>::is_empty
IsEmptyOp(l) == Len(l) = 0

\* <[T] as Index<usize>>::index: the element, or the panic "index out of
\* bounds: the len is {len} but the index is {index}"
IndexOpWrap(l, i) ==
    IF Len(l) = 0
    THEN [panic |-> TRUE, index |-> i, len |-> Len(l)]
    ELSE [panic |-> FALSE, value |-> l[(i % Len(l)) + 1]]

IndexOp(l, i) ==
    IF i < Len(l)
    THEN [panic |-> FALSE, value |-> l[i + 1]]
    ELSE [panic |-> TRUE, index |-> i, len |-> Len(l)]

\* <&Args as IntoIterator>::into_iter: the iterator is the slice still to be
\* visited
IntoIter(l) == l

\* ArgsIter::next: the next item, if any, and the iterator after the call
IterNextBack(it) ==
    IF it = <<>>
    THEN [some |-> FALSE, rest |-> <<>>]
    ELSE [some |-> TRUE, item |-> it[Len(it)], rest |-> SubSeq(it, 1, Len(it) - 1)]

IterNext(it) ==
    IF it = <<>>
    THEN [some |-> FALSE, rest |-> <<>>]
    ELSE [some |-> TRUE, item |-> Head(it), rest |-> Tail(it)]

\* ArgsIter::nth: skips n items and yields the next one, if any
IterNthOneBased(it, n) ==
    IF n >= 1 /\ n <= Len(it)
    THEN [some |-> TRUE, item |-> it[n], rest |-> SubSeq(it, n + 1, Len(it))]
    ELSE [some |-> FALSE, rest |-> <<>>]

IterNth(it, n) ==
    IF n < Len(it)
    THEN [some |-> TRUE, item |-> it[n + 1], rest |-> SubSeq(it, n + 2, Len(it))]
    ELSE [some |-> FALSE, rest |-> <<>>]

\* `for arg in ARGS`: the items next() yields until it yields None
RECURSIVE Drain(_)
Drain(it) ==
    LET r == IterNext(it) IN
      IF r.some THEN <<r.item>> \o Drain(r.rest) ELSE <<>>

\* <[Box<str>] as Debug>::fmt: every argument quoted, in a bracketed list
DebugFmt(l) ==
    <<"[">> \o [i \in 1..Len(l) |-> <<"\"", l[i], "\"">>] \o <<"]">>

\* the inherent methods and trait implementations Args offers to its users
ArgsApi == {"len", "is_empty", "fmt", "index", "into_iter"}

\* an accessor of Args is called: Args::force enters get_or_init
ArgsAccess(t) ==
    /\ ~fault
    /\ pc[t] \in {"idle", "answered", "panicked"}
    /\ ncalls[t] < MaxCalls
    /\ pc' = [pc EXCEPT ![t] = "cas"]
    /\ ncalls' = [ncalls EXCEPT ![t] = @ + 1]
    /\ yielded' = [yielded EXCEPT ![t] = FALSE]
    /\ late' = [late EXCEPT ![t] = (observed # {})]
    /\ via' = [via EXCEPT ![t] = "none"]
    /\ UNCHANGED <<state, slot, guard, tmp, widx, outcome, ret, fault, hist, ext>>

\* the producer of Args::force: every argument is valid Unicode and the
\* collected list is returned
EnvArgsCollect(t) ==
    /\ ~fault
    /\ pc[t] = "in_f"
    /\ inner[t] = "none"
    /\ \A i \in DOMAIN argv : IsUnicode(argv[i])
    /\ envReads' = envReads + 1
    /\ tmp' = [tmp EXCEPT ![t] = Code(argv)]
    /\ produced' = Append(produced, Code(argv))
    /\ pc' = [pc EXCEPT ![t] = "drop_old"]
    /\ UNCHANGED <<state, slot, guard, widx, ncalls, yielded, late, via,
                   outcome, ret, fault, calls, aborted, panics, stateHist,
                   observed, slotReads, slotDrops, slotWrites, inner, argv,
                   access, rpc, rstart, rend, randState, rresult,
                   ipc, iline, iresult, iend>>

\* the producer of Args::force: std::env::args() panics on an argument that is
\* not valid Unicode
EnvArgsPanic(t) ==
    /\ ~fault
    /\ pc[t] = "in_f"
    /\ inner[t] = "none"
    /\ \E i \in DOMAIN argv : ~IsUnicode(argv[i])
    /\ envReads' = envReads + 1
    /\ aborted' = aborted + 1
    /\ pc' = [pc EXCEPT ![t] = "unwind"]
    /\ UNCHANGED <<state, slot, guard, tmp, widx, ncalls, yielded, late, via,
                   outcome, ret, fault, calls, panics, produced, stateHist,
                   observed, slotReads, slotDrops, slotWrites, inner, argv,
                   access, rpc, rstart, rend, randState, rresult,
                   ipc, iline, iresult, iend>>

\* force() has returned: the accessor answers from the list it was handed
Answer(t, kind, i, result) ==
    /\ ~fault
    /\ pc[t] = "returned"
    /\ access' = [kind |-> kind, index |-> i, result |-> result,
                  at |-> state, from |-> ret[t]]
    /\ pc' = [pc EXCEPT ![t] = "answered"]
    /\ UNCHANGED <<state, slot, guard, tmp, widx, ncalls, yielded, late, via,
                   outcome, ret, fault, hist, inner, argv, envReads, rpc,
                   rstart, rend, randState, rresult,
                   ipc, iline, iresult, iend>>

\* Args::len
ArgsLen(t) == Answer(t, "len", 0, LenOp(Boxed(ret[t])))

\* Args::is_empty
ArgsIsEmpty(t) == Answer(t, "is_empty", 0, IsEmptyOp(Boxed(ret[t])))

\* <Args as Debug>::fmt
ArgsFmt(t) == Answer(t, "fmt", 0, DebugFmt(Boxed(ret[t])))

\* <Args as Index<usize>>::index
ArgsIndex(t) ==
    \E i \in 0..MaxIndex : Answer(t, "index", i, IndexOp(Boxed(ret[t]), i))

\* `for arg in ARGS`
ArgsIterate(t) == Answer(t, "into_iter", 0, Drain(IntoIter(Boxed(ret[t]))))

\* ARGS.into_iter().nth(i)
ArgsIterNth(t) ==
    \E i \in 0..MaxIndex :
        Answer(t, "into_iter.nth", i, IterNth(IntoIter(Boxed(ret[t])), i))

ArgsInit ==
    /\ CellInit
    /\ NoInner
    /\ NoRand
    /\ NoInput
    /\ argv \in ArgvChoices
    /\ envReads = 0
    /\ access = NoAccess

ArgsNext ==
    \E t \in Threads :
        \/ ArgsAccess(t)
        \/ CasOk(t)
        \/ CasErrInit(t)
        \/ CasErrRetry(t)
        \/ Yield(t)
        \/ ProducerStart(t)
        \/ EnvArgsCollect(t)
        \/ EnvArgsPanic(t)
        \/ DropOld(t)
        \/ WriteField(t)
        \/ GuardArm(t)
        \/ GuardDrop(t)
        \/ GuardDropUnwind(t)
        \/ Propagate(t)
        \/ ReadReady(t)
        \/ ArgsLen(t)
        \/ ArgsIsEmpty(t)
        \/ ArgsFmt(t)
        \/ ArgsIndex(t)
        \/ ArgsIterate(t)
        \/ ArgsIterNth(t)

ArgsSpec == ArgsInit /\ [][ArgsNext]_vars

\* ------------------------------------------------------------ random_number

\* 2^32 and 2^64 at the model's width
U32Mod == 2 ^ WordBits
U64Mod == 2 ^ (2 * WordBits)
\* i32::MIN and i32::MAX
I32Min == 0 - 2 ^ (WordBits - 1)
I32Max == 2 ^ (WordBits - 1) - 1
I32 == I32Min..I32Max

\* `as u32` and `as i32`: the value is kept modulo 2^32
AsU32(n) == n % U32Mod
AsI32(n) == IF (n % U32Mod) > I32Max THEN (n % U32Mod) - U32Mod ELSE n % U32Mod

\* the low 16 bits of the WyRand constants 0xa0761d6478bd642f and
\* 0xe7037ed1a0b428db, cut to the width of the model's u64
WyAddLow == 25647
WyXorLow == 10459
WyAdd == WyAddLow % U64Mod
WyXor == WyXorLow % U64Mod

\* a ^ b on naturals
RECURSIVE BitXor(_, _)
BitXor(a, b) ==
    IF a = 0 THEN b
    ELSE IF b = 0 THEN a
    ELSE ((a + b) % 2) + 2 * BitXor(a \div 2, b \div 2)

\* next_u64: the generator is seeded from the clock when its state is 0, then
\* advanced; the result is the new state and the number generated
NextU64(st, nanos) ==
    LET seeded == IF st = 0 THEN nanos % U64Mod ELSE st
        s1 == (seeded + WyAdd) % U64Mod
        t == s1 * BitXor(s1, WyXor)
    IN [state |-> s1, out |-> BitXor(t \div U64Mod, t) % U64Mod]

\* i32::checked_add(1) and i32::checked_sub(1)
WrappingAdd1(n) == [some |-> TRUE, value |-> AsI32(n + 1)]

CheckedAdd1(n) ==
    IF n = I32Max THEN [some |-> FALSE] ELSE [some |-> TRUE, value |-> n + 1]

CheckedSub1(n) ==
    IF n = I32Min THEN [some |-> FALSE] ELSE [some |-> TRUE, value |-> n - 1]

\* `let min = match range.start_bound()`
StartMin(b) ==
    IF b.kind = "Excluded" THEN CheckedAdd1(b.n)
    ELSE IF b.kind = "Included" THEN [some |-> TRUE, value |-> b.n]
    ELSE [some |-> TRUE, value |-> I32Min]

\* `let max = match range.end_bound()`
EndMax(b) ==
    IF b.kind = "Excluded" THEN CheckedSub1(b.n)
    ELSE IF b.kind = "Included" THEN [some |-> TRUE, value |-> b.n]
    ELSE [some |-> TRUE, value |-> I32Max]

\* (max as u32).wrapping_sub(min as u32).wrapping_add(1)
RangeSizeExclusive(min, max) ==
    (AsU32(max) - AsU32(min)) % U32Mod

RangeSize(min, max) ==
    (((AsU32(max) - AsU32(min)) % U32Mod) + 1) % U32Mod

\* the value returned for the generated number raw (an i32) when no check
\* failed; a remainder by 0 panics
Reduce(raw, min, max) ==
    IF min = I32Min /\ max = I32Max
    THEN [kind |-> "value", value |-> raw]
    ELSE LET size == RangeSize(min, max) IN
           IF size = 0
           THEN [kind |-> "panic", msg |-> "remainder with a divisor of zero"]
           ELSE [kind |-> "value",
                 value |-> AsI32(((AsU32(raw) % size) + AsU32(min)) % U32Mod),
                 divisor |-> size]

\* random_number(range) called with the generator in state st: the state the
\* generator is left in and the way the call ends
RandomNumber(start, end, st, nanos) ==
    LET min == StartMin(start)
        max == EndMax(end)
    IN IF ~min.some
       THEN [state |-> st,
             result |-> [kind |-> "panic",
                         msg |-> "can't generate a random number larger than i32::MAX"]]
       ELSE IF ~max.some
       THEN [state |-> st,
             result |-> [kind |-> "panic",
                         msg |-> "can't generate a random number smaller than i32::MIN"]]
       ELSE IF ~(min.value <= max.value)
       THEN [state |-> st,
             result |-> [kind |-> "panic",
                         msg |-> "can't generate a random number within an empty range"]]
       ELSE LET g == NextU64(st, nanos) IN
              [state |-> g.state,
               result |-> Reduce(AsI32(g.out), min.value, max.value)]

\* the bounds a range of i32 may have
BoundSet ==
    {[kind |-> "Unbounded"]}
      \cup {[kind |-> k, n |-> n] : k \in {"Included", "Excluded"}, n \in I32}

\* states of the generator before the call, and readings of the clock
RandStates == 0..7 \cup {U64Mod - 1}
Nanos == {1, U32Mod + 3}

RandInit ==
    /\ CellInit
    /\ NoInner
    /\ NoArgs
    /\ NoInput
    /\ rpc = "call"
    /\ rstart \in BoundSet
    /\ rend \in BoundSet
    /\ randState \in RandStates
    /\ rresult = [kind |-> "none"]

RandFrame ==
    UNCHANGED <<state, slot, pc, guard, tmp, widx, ncalls, yielded, late, via,
                outcome, ret, fault, hist, inner, argv, envReads, access,
                rstart, rend, ipc, iline, iresult, iend>>

\* a call of random_number that ends in one of its three panics
RandomNumberPanics ==
    /\ rpc = "call"
    /\ \E nanos \in Nanos :
         LET r == RandomNumber(rstart, rend, randState, nanos) IN
           /\ r.result.kind = "panic"
           /\ randState' = r.state
           /\ rresult' = r.result
    /\ rpc' = "done"
    /\ RandFrame

\* a call of random_number that returns
RandomNumberReturns ==
    /\ rpc = "call"
    /\ \E nanos \in Nanos :
         LET r == RandomNumber(rstart, rend, randState, nanos) IN
           /\ r.result.kind = "value"
           /\ randState' = r.state
           /\ rresult' = r.result
    /\ rpc' = "done"
    /\ RandFrame

RandNext ==
    \/ RandomNumberPanics
    \/ RandomNumberReturns

RandSpec == RandInit /\ [][RandNext]_vars

\* ---------------------------------------------------------------- read_line

MaxChars == 2

\* UTF-8 encodings of the characters a line is made of
Letter == <<97>>
Space == <<32>>
LineFeed == <<10>>
EAcute == <<195, 169>>
NoBreakSpace == <<194, 160>>
Euro == <<226, 130, 172>>
EmSpace == <<226, 128, 131>>
Grin == <<240, 159, 152, 128>>

Alphabet == {Letter, Space, EAcute, NoBreakSpace, Euro, EmSpace, Grin}

\* char::is_whitespace, on the characters above
IsWhitespace(c) == c \in {Space, LineFeed, NoBreakSpace, EmSpace}

RECURSIVE Flatten(_)
Flatten(cs) ==
    IF Len(cs) = 0 THEN <<>> ELSE Head(cs) \o Flatten(Tail(cs))

\* what stdin's read_line can append: the characters up to the line feed and
\* the line feed itself, which is missing when the input ends first
Lines ==
    {Flatten(cs) \o nl :
        cs \in UNION {[1..n -> Alphabet] : n \in 0..MaxChars},
        nl \in {<<>>, LineFeed}}

\* number of bytes of the character whose first byte is b
Utf8Width(b) ==
    IF b < 128 THEN 1 ELSE IF b < 224 THEN 2 ELSE IF b < 240 THEN 3 ELSE 4

\* the character that starts at byte index i
CharAt(s, i) == SubSeq(s, i + 1, i + Utf8Width(s[i + 1]))

\* the byte indices at which the characters from index i on start
RECURSIVE CharIndices(_, _)
CharIndices(s, i) ==
    IF i >= Len(s) THEN {}
    ELSE {i} \cup CharIndices(s, i + Utf8Width(s[i + 1]))

NonWhitespaceAt(s) ==
    {i \in CharIndices(s, 0) : ~IsWhitespace(CharAt(s, i))}

\* str::find(|c| !c.is_whitespace())
Find(s) ==
    LET hits == NonWhitespaceAt(s) IN
      IF hits = {} THEN [some |-> FALSE]
      ELSE [some |-> TRUE,
            value |-> CHOOSE i \in hits : \A j \in hits : i <= j]

\* str::rfind(|c| !c.is_whitespace())
RFind(s) ==
    LET hits == NonWhitespaceAt(s) IN
      IF hits = {} THEN [some |-> FALSE]
      ELSE [some |-> TRUE,
            value |-> CHOOSE i \in hits : \A j \in hits : j <= i]

UnwrapOr(o, default) == IF o.some THEN o.value ELSE default

\* as_bytes_mut().copy_within(start.., 0)
CopyWithin(s, start) ==
    [i \in 1..Len(s) |-> IF i <= Len(s) - start THEN s[i + start] ELSE s[i]]

\* String::truncate
Truncate(s, n) == IF n < Len(s) THEN SubSeq(s, 1, n) ELSE s

\* as_bytes().get(end)
GetByte(s, i) ==
    IF i < Len(s) THEN [some |-> TRUE, value |-> s[i + 1]]
    ELSE [some |-> FALSE]

\* the match on the byte at end: what is added to end
EndStep(o) ==
    IF ~o.some THEN 0
    ELSE IF o.value \div 128 = 0 THEN 1
    ELSE IF o.value \div 32 = 6 THEN 2
    ELSE IF o.value \div 16 = 14 THEN 3
    ELSE IF o.value \div 8 = 30 THEN 4
    ELSE 0

InputInit ==
    /\ CellInit
    /\ NoInner
    /\ NoArgs
    /\ NoRand
    /\ ipc = "call"
    /\ iline = <<>>
    /\ iresult = <<>>
    /\ iend = 0

InputFrame ==
    UNCHANGED <<state, slot, pc, guard, tmp, widx, ncalls, yielded, late, via,
                outcome, ret, fault, hist, inner, argv, envReads, access,
                rpc, rstart, rend, randState, rresult>>

\* stdin().read_line(&mut result)
StdinReadLine ==
    /\ ipc = "call"
    /\ \E l \in Lines :
         /\ iline' = l
         /\ iresult' = l
    /\ ipc' = "read"
    /\ UNCHANGED iend
    /\ InputFrame

\* find, copy_within, truncate
TrimStart ==
    /\ ipc = "read"
    /\ LET start == UnwrapOr(Find(iresult), 0) IN
         iresult' = Truncate(CopyWithin(iresult, start), Len(iresult) - start)
    /\ ipc' = "trimmed"
    /\ UNCHANGED <<iline, iend>>
    /\ InputFrame

\* rfind
FindEnd ==
    /\ ipc = "trimmed"
    /\ iend' = UnwrapOr(RFind(iresult), Len(iresult))
    /\ ipc' = "found"
    /\ UNCHANGED <<iline, iresult>>
    /\ InputFrame

\* the match that moves end past the character it points at
SkipChar ==
    /\ ipc = "found"
    /\ iend' = iend + EndStep(GetByte(iresult, iend))
    /\ ipc' = "measured"
    /\ UNCHANGED <<iline, iresult>>
    /\ InputFrame

\* result.truncate(end)
TrimEnd ==
    /\ ipc = "measured"
    /\ iresult' = Truncate(iresult, iend)
    /\ ipc' = "done"
    /\ UNCHANGED <<iline, iend>>
    /\ InputFrame

InputNext ==
    \/ StdinReadLine
    \/ TrimStart
    \/ FindEnd
    \/ SkipChar
    \/ TrimEnd

InputSpec == InputInit /\ [][InputNext]_vars

\* ----------------------------------------------------------------- claims

\* the single value a completed producer invocation returned
Published == Full(produced[1])
\* a slot content in which every field holds the same produced value
Whole(c) == \E v \in Values : c = Full(v)
\* stores of UNINIT made by guards
Rollbacks == Cardinality({i \in 2..Len(stateHist) : stateHist[i] = UNINIT})

\* C1: a producer invocation starts only if every earlier one aborted, at most
\* one invocation ever completes, and when no producer aborts the producer
\* has been invoked exactly once whenever a call has returned.
C1_SingleInitialization ==
    /\ calls <= aborted + 1
    /\ Len(produced) <= 1
    /\ (aborted = 0 /\ observed # {}) => calls = 1

C1_Witness ==
    /\ aborted = 0
    /\ calls = 1
    /\ \A t \in Threads : pc[t] = "returned"
    /\ \E t \in Threads : yielded[t]

\* C2: every call that returns reads, through the reference it was given, the
\* value returned by the one producer invocation that completed; no two
\* returning callers observe different values.
C2_Consistency ==
    /\ Cardinality(observed) <= 1
    /\ observed # {} => (Len(produced) = 1 /\ observed = {Published})
    /\ \A t \in Threads : outcome[t] = "value" => ret[t] \in observed

C2_Witness ==
    /\ \E t, u \in Threads :
         /\ t # u
         /\ via[t] = "win" /\ pc[t] = "returned"
         /\ via[u] = "ready" /\ pc[u] = "returned"
         /\ ret[t] = ret[u]
         /\ ret[t] = Published

\* C3: no caller returns while the slot is partially written: the state is
\* INIT only when every field of the slot holds the produced value, a caller
\* about to read through its reference finds the state INIT, and every
\* content ever read is whole.
C3_NoTearing ==
    /\ state = INIT => Whole(slot)
    /\ \A t \in Threads : pc[t] = "read_ready" => (state = INIT /\ Whole(slot))
    /\ \A c \in observed : Whole(c)

C3_Witness ==
    \E t, u \in Threads :
        /\ pc[t] = "write" /\ widx[t] = 1
        /\ slot[1] # slot[NFields]
        /\ pc[u] = "yield"

\* C4: after an aborted producer the cell is UNINIT again and a later call
\* initialises it: the state alternates UNINIT, IN_PROGRESS and ends in INIT,
\* INIT is reached by invocation number aborted + 1, and when the first
\* invocation aborts and the second returns 7, two invocations were made and
\* every caller that returns obtains 7.
C4_RetryAfterAbort ==
    /\ \A i \in DOMAIN stateHist :
         IF i % 2 = 0
         THEN stateHist[i] = IN_PROGRESS
         ELSE \/ stateHist[i] = UNINIT
              \/ (i = Len(stateHist) /\ i > 1 /\ stateHist[i] = INIT)
    /\ state = INIT => (calls = aborted + 1 /\ Len(stateHist) = 2 * aborted + 3)
    /\ (aborted = 1 /\ state = INIT) =>
          stateHist = <<UNINIT, IN_PROGRESS, UNINIT, IN_PROGRESS, INIT>>
    /\ (aborted = 1 /\ produced = <<7>>) =>
          (calls = 2 /\ \A t \in Threads : outcome[t] = "value" => ret[t] = Full(7))

C4_Witness ==
    /\ aborted = 1
    /\ produced = <<7>>
    /\ calls = 2
    /\ state = INIT
    /\ stateHist = <<UNINIT, IN_PROGRESS, UNINIT, IN_PROGRESS, INIT>>
    /\ \E t \in Threads : outcome[t] = "value" /\ ret[t] = Full(7)
    /\ \E t \in Threads : outcome[t] = "panic"

\* C5: once the state is INIT, no step changes it.
C5_ReadyTerminal == [][state = INIT => state' = INIT]_vars

C5_Witness ==
    /\ state = INIT
    /\ aborted >= 1
    /\ \E t \in Threads : ncalls[t] = MaxCalls /\ via[t] = "ready" /\ pc[t] = "returned"

\* C6: at most one thread is between a successful claim and the drop of its
\* guard, the state is IN_PROGRESS while it is, and every write to the slot
\* was made by that thread while the state was IN_PROGRESS.
C6_MutualExclusion ==
    /\ Cardinality(Initializers) <= 1
    /\ Initializers # {} => state = IN_PROGRESS
    /\ \A w \in slotWrites : w[2] = IN_PROGRESS /\ w[3] = {w[1]}

C6_Witness ==
    \E t, u \in Threads :
        /\ pc[t] = "write"
        /\ <<t, IN_PROGRESS, {t}>> \in slotWrites
        /\ pc[u] = "yield"
        /\ yielded[u]

\* C7: every read of the slot's contents happens while the state is INIT.
C7_ReadsOnlyWhenReady ==
    \A r \in slotReads : r[2] = INIT

\* C8: the slot's contents are dropped only once the cell is INIT; no drop is
\* performed while the state is UNINIT or IN_PROGRESS.
C8_DropOnlyIfReady ==
    \A s \in slotDrops : s = INIT

\* C9: when a producer aborts, UNINIT is stored before the panic reaches the
\* caller, so the state is IN_PROGRESS only while exactly one thread is in the
\* initialisation section; every aborted invocation ends its call by a panic.
C9_RollbackOrdering ==
    /\ state = IN_PROGRESS => Cardinality(Initializers) = 1
    /\ Rollbacks = panics + Cardinality({t \in Threads : pc[t] = "propagate"})
    /\ aborted = Rollbacks + Cardinality({t \in Threads : pc[t] = "unwind"})
    /\ \A t \in Threads : pc[t] = "panicked" => outcome[t] = "panic"

C9_Witness ==
    \E t, u \in Threads :
        /\ pc[t] = "propagate"
        /\ state = IN_PROGRESS
        /\ u \in Initializers
        /\ Rollbacks = 1

\* C10: once a call has returned, no step changes the state, the slot or the
\* number of producer invocations, and a call begun after that never yields,
\* never takes the Ok arm and returns the published value.
C10_IdempotentReads ==
    [][ /\ observed # {} =>
            (state' = state /\ slot' = slot /\ calls' = calls /\ aborted' = aborted)
        /\ \A t \in Threads : late'[t] =>
            /\ pc'[t] \in {"cas", "read_ready", "returned"}
            /\ ~yielded'[t]
            /\ via'[t] \in {"none", "ready"}
            /\ pc'[t] = "returned" => ret'[t] = Full(produced'[1])
            /\ state' = INIT
      ]_vars

C10_Witness ==
    \E t \in Threads :
        /\ late[t]
        /\ pc[t] = "returned"
        /\ via[t] = "ready"
        /\ ret[t] = Published
        /\ calls = aborted + 1

C18_FailedAttemptFrame ==
    [][ /\ \A t \in Threads :
             \/ (pc[t] = "cas" /\ pc'[t] = "yield")
             \/ (pc[t] = "yield" /\ pc'[t] = "cas")
             => /\ state' = state
                /\ slot' = slot
                /\ calls' = calls
                /\ slotReads' = slotReads
                /\ slotDrops' = slotDrops
                /\ slotWrites' = slotWrites
        /\ calls' # calls =>
             \E t \in Threads : via[t] = "win" /\ pc[t] = "call_f" /\ pc'[t] = "in_f"
        /\ slot' # slot =>
             \E t \in Threads : via[t] = "win" /\ pc[t] = "write"
      ]_vars

C18_Witness ==
    \E t, u \in Threads :
        /\ pc[t] = "yield"
        /\ pc[u] = "cas"
        /\ yielded[u]
        /\ state = UNINIT
        /\ calls = 0

\* C19: once a producer has called get_or_init on its own cell, the inner call
\* only ever alternates between the exchange and the yield, the state stays
\* IN_PROGRESS, the slot is never written and no caller of the cell returns.
C19_ReentrantSpins ==
    [][ \A t \in Threads :
          /\ inner[t] # "none" => inner'[t] # "none"
          /\ inner'[t] # "none" =>
               /\ inner'[t] \in {"cas", "yield"}
               /\ pc'[t] = "in_f"
               /\ state' = IN_PROGRESS
               /\ slot' = Full(UninitBytes)
               /\ slotWrites' = {}
               /\ observed' = {}
               /\ \A u \in Threads : pc'[u] \notin {"read_ready", "returned"}
               /\ \A u \in Threads \ {t} : pc'[u] \notin InitPcs
      ]_vars

C19_Witness ==
    \E t, u \in Threads :
        /\ inner[t] = "yield"
        /\ pc[t] = "in_f"
        /\ pc[u] = "yield"
        /\ yielded[u]
        /\ ncalls[u] = 1

\* every argument of the process is valid Unicode
ValidArgv == \A i \in DOMAIN argv : IsUnicode(argv[i])

C13_IndexedAccess ==
    access.kind = "index" =>
        /\ access.at = INIT
        /\ state = INIT
        /\ slot = Full(Code(argv))
        /\ access.index < Len(argv) =>
             access.result = [panic |-> FALSE, value |-> argv[access.index + 1]]
        /\ access.index >= Len(argv) =>
             access.result = [panic |-> TRUE, index |-> access.index, len |-> Len(argv)]

C13_Witness ==
    /\ access.kind = "index"
    /\ access.result.panic
    /\ access.result.index = 1
    /\ access.result.len = 1
    /\ state = INIT
    /\ \E t \in Threads : pc[t] = "cas" /\ late[t]

\* C14, as claimed: Args offers a non-panicking accessor get(index) next to the
\* panicking indexing, so a caller whose out-of-range indexing panicked could
\* have selected get instead.
C14_GetOffered ==
    (access.kind = "index" /\ access.index >= Len(argv)) =>
        {"get", "index"} \subseteq ArgsApi

\* C14, amended: Args has no get; indexing out of range always panics, and the
\* positional lookup that answers with an absence is nth on the iterator:
\* it answers once the cell is INIT, with the argument at the index when the
\* index is below the count and with None otherwise.
C14_NonPanickingLookup ==
    /\ "get" \notin ArgsApi
    /\ (access.kind = "index" /\ access.index >= Len(argv)) => access.result.panic
    /\ access.kind = "into_iter.nth" =>
         /\ access.at = INIT
         /\ state = INIT
         /\ access.index < Len(argv) =>
              (access.result.some /\ access.result.item = argv[access.index + 1])
         /\ access.index >= Len(argv) => ~access.result.some

C14_Witness ==
    /\ access.kind = "into_iter.nth"
    /\ ~access.result.some
    /\ access.index = 3
    /\ Len(argv) = 3

\* C15: an iteration answers once the cell is INIT and yields the cached
\* arguments, each once and in argv order, as many as len(); every iteration
\* yields that same sequence and leaves the cached list as it was.
C15_Iteration ==
    access.kind = "into_iter" =>
        /\ access.at = INIT
        /\ state = INIT
        /\ access.result = argv
        /\ Len(access.result) = LenOp(Boxed(access.from))
        /\ slot = Full(Code(argv))
        /\ slot = access.from

C15_Witness ==
    /\ access.kind = "into_iter"
    /\ access.result = <<"prog", "-v", "-v">>
    /\ \E t \in Threads : ncalls[t] = MaxCalls /\ pc[t] = "answered" /\ late[t]

\* the i32 values the range start..end contains (RangeBounds::contains)
RangeSet ==
    {v \in I32 :
        /\ rstart.kind = "Included" => rstart.n <= v
        /\ rstart.kind = "Excluded" => rstart.n < v
        /\ rend.kind = "Included" => v <= rend.n
        /\ rend.kind = "Excluded" => v < rend.n}

\* C16: for a range that contains some i32, random_number returns a value of
\* the range whatever number the generator yields; unless the range is all of
\* i32 the divisor is the number of values of the range, hence not 0; a range
\* of one value returns that value.
C16_RandomInRange ==
    (rpc = "done" /\ RangeSet # {}) =>
        /\ rresult.kind = "value"
        /\ rresult.value \in RangeSet
        /\ RangeSet # I32 => rresult.divisor = Cardinality(RangeSet)
        /\ Cardinality(RangeSet) = 1 => RangeSet = {rresult.value}
        /\ \A raw \in I32 :
             LET r == Reduce(raw, StartMin(rstart).value, EndMax(rend).value) IN
               r.kind = "value" /\ r.value \in RangeSet

C16_Witness ==
    /\ rpc = "done"
    /\ rstart = [kind |-> "Included", n |-> 12]
    /\ rend = [kind |-> "Excluded", n |-> 15]
    /\ rresult.kind = "value"
    /\ rresult.value = 14
    /\ rresult.divisor = 3

\* C17: a call of random_number panics exactly when the range is empty
\* (min > max), its start is excluded and i32::MAX, or its end is excluded and
\* i32::MIN; 12..12 panics and 12..=12 returns 12; a call that panics leaves
\* the generator's state as it was.
C17_PanicsBeforeGenerating ==
    [][ (rpc = "call" /\ rpc' = "done") =>
          /\ rresult'.kind = "panic" <=>
               \/ rstart = [kind |-> "Excluded", n |-> I32Max]
               \/ rend = [kind |-> "Excluded", n |-> I32Min]
               \/ RangeSet = {}
          /\ rresult'.kind = "panic" => randState' = randState
          /\ (rstart = [kind |-> "Included", n |-> 12]
                /\ rend = [kind |-> "Excluded", n |-> 12]) => rresult'.kind = "panic"
          /\ (rstart = [kind |-> "Included", n |-> 12]
                /\ rend = [kind |-> "Included", n |-> 12]) =>
               (rresult'.kind = "value" /\ rresult'.value = 12)
      ]_vars

C17_Witness ==
    /\ rpc = "done"
    /\ rstart = [kind |-> "Excluded", n |-> I32Max]
    /\ rend = [kind |-> "Unbounded"]
    /\ rresult.kind = "panic"
    /\ randState = 7

\* the characters of a string, in order
RECURSIVE Decode(_)
Decode(s) ==
    IF s = <<>> THEN <<>>
    ELSE LET w == Utf8Width(s[1]) IN
           <<SubSeq(s, 1, w)>> \o Decode(SubSeq(s, w + 1, Len(s)))

RECURSIVE DropLeading(_)
DropLeading(cs) ==
    IF cs # <<>> /\ IsWhitespace(Head(cs)) THEN DropLeading(Tail(cs)) ELSE cs

RECURSIVE DropTrailing(_)
DropTrailing(cs) ==
    IF cs # <<>> /\ IsWhitespace(cs[Len(cs)])
    THEN DropTrailing(SubSeq(cs, 1, Len(cs) - 1))
    ELSE cs

\* the string without its leading and trailing whitespace
Trim(s) == Flatten(DropTrailing(DropLeading(Decode(s))))

\* C20: when read_line returns, its result is the line read with the
\* whitespace at both ends removed, and neither starts nor ends with a
\* whitespace character.
C20_Trimmed ==
    ipc = "done" =>
        /\ iresult = Trim(iline)
        /\ iresult # <<>> =>
             LET cs == Decode(iresult) IN
               ~IsWhitespace(cs[1]) /\ ~IsWhitespace(cs[Len(cs)])

\* the same, for a line that holds a character other than whitespace
C20_TrimmedUnlessBlank ==
    (ipc = "done" /\ NonWhitespaceAt(iline) # {}) =>
        /\ iresult = Trim(iline)
        /\ LET cs == Decode(iresult) IN
             ~IsWhitespace(cs[1]) /\ ~IsWhitespace(cs[Len(cs)])
====
